---- MODULE Spec2Model ----
(***************************************************************************)
(* The TODO application of 01-todo/todos: the request handlers of views.py *)
(* over the Todo table, with the form validation of forms.py.              *)
(*                                                                         *)
(* The handlers run in the framework's default autocommit mode: every      *)
(* query is its own transaction.  A handler that reads a row and writes    *)
(* it back later (todo_edit, todo_delete, todo_toggle_resolved) is         *)
(* therefore two steps, and steps of different requests interleave.        *)
(*                                                                         *)
(* models.py is not among the sources.  What the handlers need of it (the  *)
(* auto-generated id, the two timestamps, the default order) is modelled   *)
(* from the specification's data model.                                    *)
(***************************************************************************)
EXTENDS Integers, Sequences, FiniteSets, Bags, TLC

\* Bounds of the model.
MaxClock == 3       \* writes (inserts and updates) ever made
NumWorkers == 2     \* requests in progress at the same time

\* The id the tests use for a record that does not exist.
MissingPk == 9999

Ids == 1..MaxClock
Methods == {"GET", "POST"}

None == ""           \* no template, no location, no message, no view
NoDate == <<>>       \* due_date of a row without one

VARIABLES
    store,      \* the Todo table: id -> row, for the ids present
    nextId,     \* the next auto-generated primary key
    clock,      \* the time of the latest write
    inflight,   \* the requests in progress: a bag of [pc, todo], the handler
                \* and the instance it loaded
    response,   \* the response the latest step sent, NoResponse if it sent none
    expected,   \* history: per id, is_resolved as atomic toggles would leave it
    prior       \* history: per id, the row's state before a run of toggles

vars == <<store, nextId, clock, inflight, response, expected, prior>>

----------------------------------------------------------------------------
(* Input form / validator: TodoForm over title, description, due_date,     *)
(* is_resolved.                                                            *)

\* Text is a sequence of characters.
RECURSIVE lstrip(_)
lstrip(s) == IF s # <<>> /\ Head(s) = " " THEN lstrip(Tail(s)) ELSE s

RECURSIVE rstrip(_)
rstrip(s) ==
    IF s # <<>> /\ s[Len(s)] = " " THEN rstrip(SubSeq(s, 1, Len(s) - 1)) ELSE s

strip(s) == rstrip(lstrip(s))

\* request.POST is a mapping: a key that was not submitted is not in its domain.
\* A text field's cleaned value; a missing key is the empty value.
clean_text(POST, key) == IF key \in DOMAIN POST THEN strip(POST[key]) ELSE <<>>

DaysInMonth(y, m) ==
    IF m = 2 THEN (IF y % 4 = 0 /\ (y % 100 # 0 \/ y % 400 = 0) THEN 29 ELSE 28)
    ELSE IF m \in {4, 6, 9, 11} THEN 30 ELSE 31

\* A submitted date is <<year, month, day>>; it parses when it is a calendar date.
valid_date(raw) ==
    /\ raw[2] \in 1..12
    /\ raw[3] \in 1..DaysInMonth(raw[1], raw[2])

clean_due_date(POST) ==
    IF "due_date" \in DOMAIN POST THEN POST.due_date ELSE NoDate

\* The checkbox: an absent key is False, "false" is False, other text is True.
clean_is_resolved(POST) ==
    IF "is_resolved" \notin DOMAIN POST THEN FALSE
    ELSE IF POST.is_resolved \in {"false", "False"} THEN FALSE
    ELSE POST.is_resolved # ""

\* A form whose title is not required.
form_errors_TitleOptional(POST) ==
    IF "due_date" \in DOMAIN POST /\ POST.due_date # <<>> /\ ~valid_date(POST.due_date)
        THEN {"due_date"} ELSE {}

form_errors(POST) ==
    (IF clean_text(POST, "title") = <<>> THEN {"title"} ELSE {})
    \cup
    (IF "due_date" \in DOMAIN POST /\ POST.due_date # <<>> /\ ~valid_date(POST.due_date)
        THEN {"due_date"} ELSE {})

is_valid(POST) == form_errors(POST) = {}

\* A form whose fields leave out the description.
construct_instance_NoDescription(instance, POST) ==
    [instance EXCEPT
        !.title = clean_text(POST, "title"),
        !.due_date = clean_due_date(POST),
        !.is_resolved = clean_is_resolved(POST)]

\* A form that leaves is_resolved as it is when none is submitted.
construct_instance_KeepsResolved(instance, POST) ==
    [instance EXCEPT
        !.title = clean_text(POST, "title"),
        !.description = clean_text(POST, "description"),
        !.due_date = clean_due_date(POST),
        !.is_resolved = IF "is_resolved" \in DOMAIN POST
                            THEN clean_is_resolved(POST) ELSE @]

\* The form's fields written onto the instance.
construct_instance(instance, POST) ==
    [instance EXCEPT
        !.title = clean_text(POST, "title"),
        !.description = clean_text(POST, "description"),
        !.due_date = clean_due_date(POST),
        !.is_resolved = clean_is_resolved(POST)]

\* The submitted field maps of the model.
PostData ==
    { [title |-> <<"a">>],
      [title |-> <<" ", "b">>, description |-> <<"d">>, due_date |-> <<2025, 1, 15>>,
       is_resolved |-> "on"],
      [description |-> <<"d">>],
      [title |-> <<" ">>, is_resolved |-> "on"],
      [title |-> <<"a">>, due_date |-> <<2025, 2, 30>>, is_resolved |-> "false"] }

----------------------------------------------------------------------------
(* Record store.                                                           *)

\* A new, unsaved instance with the model's defaults; 0 stands for a primary
\* key and for timestamps that are not set yet.
NewTodo ==
    [id |-> 0, title |-> <<>>, description |-> <<>>, due_date |-> NoDate,
     is_resolved |-> FALSE, created_at |-> 0, updated_at |-> 0]

\* The time a write is stamped with: later than every earlier write.
now == clock + 1

\* updated_at is set by every write, created_at by an insert.
auto_now(instance) == [instance EXCEPT !.updated_at = now]

auto_now_add(instance) == [instance EXCEPT !.created_at = now]

Inserted(id, row) ==
    [i \in DOMAIN store \cup {id} |-> IF i = id THEN row ELSE store[i]]

\* A save that writes the row back with the updated_at it was read with.
save_KeepsUpdatedAt(instance) ==
    IF instance.id = NewTodo.id
        THEN Inserted(nextId, auto_now(auto_now_add([instance EXCEPT !.id = nextId])))
    ELSE IF instance.id \in DOMAIN store
        THEN [store EXCEPT ![instance.id] = instance]
    ELSE Inserted(instance.id, auto_now(auto_now_add(instance)))

\* form.save(), todo.save(): an instance without a primary key is inserted
\* under the next id.  An instance with one is updated, every field written;
\* when no row has that key the update changes nothing and the instance is
\* inserted under its key.
save(instance) ==
    IF instance.id = NewTodo.id
        THEN Inserted(nextId, auto_now(auto_now_add([instance EXCEPT !.id = nextId])))
    ELSE IF instance.id \in DOMAIN store
        THEN [store EXCEPT ![instance.id] = auto_now(instance)]
    ELSE Inserted(instance.id, auto_now(auto_now_add(instance)))

\* instance.delete(): the row with the instance's key is removed, if there.
delete(instance) == [id \in DOMAIN store \ {instance.id} |-> store[id]]

\* a sorts before b: newer first, the higher id first among equals.
Before(a, b) ==
    \/ a.created_at > b.created_at
    \/ a.created_at = b.created_at /\ a.id > b.id

RECURSIVE ordered(_)
ordered(rows) ==
    IF rows = {} THEN <<>>
    ELSE LET first == CHOOSE a \in rows : \A b \in rows \ {a} : Before(a, b)
         IN <<first>> \o ordered(rows \ {first})

\* Todo.objects.all()
objects_all == ordered({store[id] : id \in DOMAIN store})

----------------------------------------------------------------------------
(* Responses.                                                              *)

NoContext == <<>>

NoPost == <<>>       \* request.POST of a GET

Request(view, method, pk, POST) ==
    [view |-> view, method |-> method, pk |-> pk, POST |-> POST]

render(request, template, context) ==
    [request |-> request, status |-> 200, template |-> template,
     location |-> None, context |-> context, message |-> None]

redirect(request, to, message) ==
    [request |-> request, status |-> 302, template |-> None,
     location |-> to, context |-> NoContext, message |-> message]

Http404(request) ==
    [request |-> request, status |-> 404, template |-> None,
     location |-> None, context |-> NoContext, message |-> None]

NoResponse ==
    [request |-> Request(None, None, 0, NoPost), status |-> 0, template |-> None,
     location |-> None, context |-> NoContext, message |-> None]

----------------------------------------------------------------------------
(* History variables.                                                      *)

\* expected[id] is the set of values is_resolved may have if every toggle
\* since the row's last create or edit flipped the stored value; it is both
\* values once that can no longer be told (an edit racing a toggle, a row
\* written back after its deletion).
Unknown == BOOLEAN

\* prior[id], after n toggles in a row that each read the row as the one
\* before left it (n counted up to 2), is the row's state before the latest.
NoPrior == [n |-> 0, is_resolved |-> FALSE, updated_at |-> 0]

\* Some toggle request has read row id and not written yet.
ToggleInFlight(id) ==
    \E r \in BagToSet(inflight) : r.pc = "todo_toggle_resolved" /\ r.todo.id = id

Extend(f, id, v) == [i \in DOMAIN f \cup {id} |-> IF i = id THEN v ELSE f[i]]

Restrict(f, S) == [i \in S |-> f[i]]

----------------------------------------------------------------------------
(* Requests in progress.                                                   *)

InProgress(view) == {r \in BagToSet(inflight) : r.pc = view}

\* A worker is free to take a request that reads a row and writes it later.
WorkerFree == BagCardinality(inflight) < NumWorkers

\* The writes requests in progress may still make: an edit or a toggle may
\* write once.
Pending ==
    LET writers == InProgress("todo_edit") \cup InProgress("todo_toggle_resolved")
    IN BagCardinality([r \in writers |-> inflight[r]])

\* The bound on writes leaves room for one more request that writes.
WriteLeft == clock + Pending < MaxClock

Started(view, instance) == inflight (+) SetToBag({[pc |-> view, todo |-> instance]})

Finished(r) == inflight (-) SetToBag({r})

\* The ids requests name: those in the table, and MissingPk for every other.
Pks == DOMAIN store \cup {MissingPk}

----------------------------------------------------------------------------
Init ==
    /\ store = <<>>
    /\ nextId = 1
    /\ clock = 0
    /\ inflight = EmptyBag
    /\ response = NoResponse
    /\ expected = <<>>
    /\ prior = <<>>

\* A list of the unresolved rows only.
todo_list_Unresolved ==
    /\ response' = render(Request("todo_list", "GET", 0, NoPost), "todos/todo_list.html",
            [todos |-> ordered({store[id] : id \in {i \in DOMAIN store :
                                                     ~store[i].is_resolved}})])
    /\ UNCHANGED <<store, nextId, clock, inflight, expected, prior>>

\* GET /
todo_list ==
    /\ response' = render(Request("todo_list", "GET", 0, NoPost), "todos/todo_list.html",
                          [todos |-> objects_all])
    /\ UNCHANGED <<store, nextId, clock, inflight, expected, prior>>

\* GET /new, POST /new
todo_create(method, POST) ==
    LET request == Request("todo_create", method, 0, IF method = "POST" THEN POST ELSE NoPost)
        instance == construct_instance(NewTodo, POST)
    IN
    IF method = "POST" /\ is_valid(POST)
        THEN /\ WriteLeft
             /\ store' = save(instance)
             /\ nextId' = nextId + 1
             /\ clock' = now
             /\ response' = redirect(request, "todo_list", "TODO created successfully!")
             /\ expected' = Extend(expected, nextId, {instance.is_resolved})
             /\ prior' = Extend(prior, nextId, NoPrior)
             /\ UNCHANGED inflight
        ELSE /\ response' = render(request, "todos/todo_form.html",
                    [action |-> "Create",
                     errors |-> IF method = "POST" THEN form_errors(POST) ELSE {}])
             /\ UNCHANGED <<store, nextId, clock, inflight, expected, prior>>

\* GET /<pk>/edit, and POST /<pk>/edit up to the loaded instance
todo_edit(pk, method) ==
    LET request == Request("todo_edit", method, pk, NoPost) IN
    /\ IF pk \notin DOMAIN store
          THEN /\ response' = Http404(request)
               /\ UNCHANGED inflight
       ELSE IF method = "POST"
          THEN /\ WorkerFree
               /\ WriteLeft
               /\ inflight' = Started("todo_edit", store[pk])
               /\ response' = NoResponse
       ELSE /\ response' = render(request, "todos/todo_form.html",
                    [action |-> "Edit", errors |-> {}, instance |-> store[pk]])
            /\ UNCHANGED inflight
    /\ UNCHANGED <<store, nextId, clock, expected, prior>>

\* POST /<pk>/edit from the loaded instance on: validate, save
todo_edit_submit(r, POST) ==
    LET request == Request("todo_edit", "POST", r.todo.id, POST)
        instance == construct_instance(r.todo, POST)
    IN
    /\ r \in InProgress("todo_edit")
    /\ IF is_valid(POST)
          THEN /\ clock < MaxClock
               /\ store' = save(instance)
               /\ clock' = now
               /\ response' = redirect(request, "todo_list", "TODO updated successfully!")
               /\ expected' = Extend(expected, instance.id,
                    IF instance.id \in DOMAIN store /\ ~ToggleInFlight(instance.id)
                        THEN {instance.is_resolved} ELSE Unknown)
               /\ prior' = Extend(prior, instance.id, NoPrior)
          ELSE /\ response' = render(request, "todos/todo_form.html",
                    [action |-> "Edit", errors |-> form_errors(POST),
                     instance |-> r.todo])
               /\ UNCHANGED <<store, clock, expected, prior>>
    /\ inflight' = Finished(r)
    /\ UNCHANGED nextId

\* GET /<pk>/delete, and POST /<pk>/delete up to the loaded instance
todo_delete(pk, method) ==
    LET request == Request("todo_delete", method, pk, NoPost) IN
    /\ IF pk \notin DOMAIN store
          THEN /\ response' = Http404(request)
               /\ UNCHANGED inflight
       ELSE IF method = "POST"
          THEN /\ WorkerFree
               /\ inflight' = Started("todo_delete", store[pk])
               /\ response' = NoResponse
       ELSE /\ response' = render(request, "todos/todo_confirm_delete.html",
                    [todo |-> store[pk]])
            /\ UNCHANGED inflight
    /\ UNCHANGED <<store, nextId, clock, expected, prior>>

\* POST /<pk>/delete from the loaded instance on: delete
todo_delete_execute(r) ==
    /\ r \in InProgress("todo_delete")
    /\ store' = delete(r.todo)
    /\ response' = redirect(Request("todo_delete", "POST", r.todo.id, NoPost), "todo_list",
                            "TODO deleted successfully!")
    /\ expected' = Restrict(expected, DOMAIN store')
    /\ prior' = Restrict(prior, DOMAIN store')
    /\ inflight' = Finished(r)
    /\ UNCHANGED <<nextId, clock>>

\* A toggle that does not check that the row exists.
todo_toggle_resolved_Unchecked(pk) ==
    LET request == Request("todo_toggle_resolved", "GET", pk, NoPost) IN
    /\ IF pk \notin DOMAIN store
          THEN /\ response' = redirect(request, "todo_list", "TODO marked as resolved!")
               /\ UNCHANGED inflight
          ELSE /\ WorkerFree
               /\ WriteLeft
               /\ inflight' = Started("todo_toggle_resolved", store[pk])
               /\ response' = NoResponse
    /\ UNCHANGED <<store, nextId, clock, expected, prior>>

\* GET /<pk>/toggle up to the loaded instance
todo_toggle_resolved(pk) ==
    LET request == Request("todo_toggle_resolved", "GET", pk, NoPost) IN
    /\ IF pk \notin DOMAIN store
          THEN /\ response' = Http404(request)
               /\ UNCHANGED inflight
          ELSE /\ WorkerFree
               /\ WriteLeft
               /\ inflight' = Started("todo_toggle_resolved", store[pk])
               /\ response' = NoResponse
    /\ UNCHANGED <<store, nextId, clock, expected, prior>>

\* A toggle that marks the row resolved.
negated_Resolved(instance) == [instance EXCEPT !.is_resolved = TRUE]

\* todo.is_resolved = not todo.is_resolved
negated(instance) == [instance EXCEPT !.is_resolved = ~instance.is_resolved]

\* GET /<pk>/toggle from the loaded instance on: negate, save
todo_toggle_save(r) ==
    LET instance == negated(r.todo)
        id == instance.id
        status == IF instance.is_resolved THEN "resolved" ELSE "unresolved"
        present == id \in DOMAIN store
    IN
    /\ r \in InProgress("todo_toggle_resolved")
    /\ clock < MaxClock
    /\ store' = save(instance)
    /\ clock' = now
    /\ response' = redirect(Request("todo_toggle_resolved", "GET", id, NoPost), "todo_list",
                            "TODO marked as " \o status \o "!")
    /\ expected' = Extend(expected, id,
            IF present THEN {~v : v \in expected[id]} ELSE Unknown)
    /\ prior' = Extend(prior, id,
            IF present /\ store[id] = r.todo
                THEN [n |-> IF prior[id].n = 0 THEN 1 ELSE 2,
                      is_resolved |-> store[id].is_resolved,
                      updated_at |-> store[id].updated_at]
                ELSE NoPrior)
    /\ inflight' = Finished(r)
    /\ UNCHANGED nextId

Next ==
    \/ todo_list
    \/ \E method \in Methods, POST \in PostData : todo_create(method, POST)
    \/ \E pk \in Pks, method \in Methods : todo_edit(pk, method)
    \/ \E r \in BagToSet(inflight), POST \in PostData : todo_edit_submit(r, POST)
    \/ \E pk \in Pks, method \in Methods : todo_delete(pk, method)
    \/ \E r \in BagToSet(inflight) : todo_delete_execute(r)
    \/ \E pk \in Pks : todo_toggle_resolved(pk)
    \/ \E r \in BagToSet(inflight) : todo_toggle_save(r)

Spec == Init /\ [][Next]_vars

----------------------------------------------------------------------------
(* The claims.                                                             *)

\* A field map the validator accepts: a title that is not empty once trimmed,
\* and a due date, if any, that is a calendar date.
ValidFieldMap(POST) ==
    /\ "title" \in DOMAIN POST
    /\ strip(POST.title) # <<>>
    /\ "due_date" \in DOMAIN POST => valid_date(POST.due_date)

TitleMissing(POST) == "title" \notin DOMAIN POST \/ strip(POST.title) = <<>>

Supplied(POST, key, default) == IF key \in DOMAIN POST THEN POST[key] ELSE default

SuppliedText(POST, key) == IF key \in DOMAIN POST THEN strip(POST[key]) ELSE <<>>

SubmittedTrue(POST) ==
    "is_resolved" \in DOMAIN POST /\ POST.is_resolved \in {"on", "true", "True"}

RedirectedToList(resp) == resp.status = 302 /\ resp.location = "todo_list"

\* The step answers a submit of view: a POST with its field map.
Submit(view) ==
    /\ response'.request.view = view
    /\ response'.request.method = "POST"
    /\ response'.request.POST \in PostData

\* The step is the second one of request r: r is no longer in progress.
Completes(r) == inflight' = Finished(r)

\* C1: toggle is an atomic read-modify-write: whatever the interleaving of
\* the toggle requests on a row, no toggle is lost, so the row's is_resolved
\* is the value it had flipped once per completed toggle.
C1_NoToggleLost ==
    \A id \in DOMAIN store : store[id].is_resolved \in expected[id]

\* C2: edit (show form and submit), delete (confirm and execute) and toggle
\* on an id that is not in the store answer 404 and leave the store as it was.
\* (A step that answers a request and leaves the requests in progress alone is
\* the first step of its handler.)
C2_MissingIdIs404 ==
    [][(/\ response'.request.view \in
            {"todo_edit", "todo_delete", "todo_toggle_resolved"}
        /\ response'.request.pk \notin DOMAIN store
        /\ inflight' = inflight)
        => /\ response'.status = 404
           /\ store' = store
           /\ nextId' = nextId]_vars

C2_Witness ==
    /\ response.status = 404
    /\ response.request.view = "todo_edit"
    /\ response.request.method = "POST"
    /\ response.request.pk = MissingPk
    /\ DOMAIN store # {}

\* C3: deletion is permanent: an id that was handed out and is no longer in
\* the store is never in the store again, whatever runs afterwards or was in
\* progress.
C3_DeletionPermanent ==
    [][\A id \in Ids :
        (id < nextId /\ id \notin DOMAIN store) => id \notin DOMAIN store']_vars

\* C4: a toggle of an existing row that runs on the row as the store holds
\* it negates is_resolved, stamps a later updated_at and redirects to the
\* list; the second of two such toggles in succession returns is_resolved to
\* the value before the first, updated_at having grown on both.
C4_ToggleTwice ==
    [][\A r \in InProgress("todo_toggle_resolved") :
        (/\ Completes(r)
         /\ r.todo.id \in DOMAIN store
         /\ store[r.todo.id] = r.todo)
        => LET id == r.todo.id IN
           /\ id \in DOMAIN store'
           /\ store'[id].is_resolved = ~store[id].is_resolved
           /\ store'[id].updated_at > store[id].updated_at
           /\ RedirectedToList(response')
           /\ prior[id].n > 0
                => /\ store'[id].is_resolved = prior[id].is_resolved
                   /\ store[id].updated_at > prior[id].updated_at]_vars

C4_Witness ==
    /\ response.request.view = "todo_toggle_resolved"
    /\ RedirectedToList(response)
    /\ response.request.pk \in DOMAIN store
    /\ prior[response.request.pk].n = 2
    /\ store[response.request.pk].is_resolved = ~prior[response.request.pk].is_resolved

\* The row create adds for POST, its text fields as given by TextOf.
CreateAddsOne(POST, TextOf(_, _)) ==
    \E id \in DOMAIN store' \ DOMAIN store :
        /\ DOMAIN store' = DOMAIN store \cup {id}
        /\ \A other \in DOMAIN store : store'[other] = store[other]
        /\ store'[id].id = id
        /\ store'[id].title = TextOf(POST, "title")
        /\ store'[id].description = TextOf(POST, "description")
        /\ store'[id].due_date = Supplied(POST, "due_date", NoDate)
        /\ store'[id].is_resolved = SubmittedTrue(POST)
        /\ RedirectedToList(response')

SuppliedAsIs(POST, key) == Supplied(POST, key, <<>>)

\* C5, as stated: create (submit) with a valid field map adds exactly one row,
\* under a new id, whose fields equal the supplied ones, is_resolved false and
\* description empty when omitted; the other rows are unchanged and the
\* response is a redirect to the list.
C5_CreateStoresSupplied ==
    [][(Submit("todo_create") /\ ValidFieldMap(response'.request.POST))
            => CreateAddsOne(response'.request.POST, SuppliedAsIs)]_vars

\* C5, amended: the same, the title and the description stored being the
\* supplied ones with the surrounding whitespace trimmed.
C5_CreateStoresTrimmed ==
    [][(Submit("todo_create") /\ ValidFieldMap(response'.request.POST))
            => CreateAddsOne(response'.request.POST, SuppliedText)]_vars

C5_Witness ==
    /\ response.request.view = "todo_create"
    /\ RedirectedToList(response)
    /\ "description" \notin DOMAIN response.request.POST
    /\ Cardinality(DOMAIN store) = 2
    /\ \E id \in DOMAIN store :
          /\ store[id].created_at = clock
          /\ store[id].description = <<>>
          /\ ~store[id].is_resolved

\* C6: a create or edit submit whose title is missing or empty after
\* trimming is answered with the form and a title error at status 200, the
\* store as before; no row ever has an empty title.
C6_TitleRequired ==
    [][/\ (/\ Submit("todo_create") \/ Submit("todo_edit")
           /\ TitleMissing(response'.request.POST))
            => /\ response'.status = 200
               /\ response'.template = "todos/todo_form.html"
               /\ "title" \in response'.context.errors
               /\ store' = store
       /\ \A id \in DOMAIN store' : store'[id].title # <<>>]_vars

C6_Witness ==
    /\ response.request.view = "todo_edit"
    /\ response.request.method = "POST"
    /\ TitleMissing(response.request.POST)
    /\ response.status = 200
    /\ response.request.pk \in DOMAIN store

\* What a valid edit submit leaves in the row, its title as given by TextOf.
EditSets(r, POST, TextOf(_, _)) ==
    LET id == r.todo.id IN
    /\ id \in DOMAIN store'
    /\ store'[id].title = TextOf(POST, "title")
    /\ store'[id].is_resolved = SubmittedTrue(POST)
    /\ RedirectedToList(response')

\* C7, as stated: a successful edit submit on an existing row sets its title
\* to the submitted title and its is_resolved to the submitted value, absence
\* being false, whatever the value before; the response is a redirect to the
\* list.
C7_EditStoresSubmitted ==
    [][\A r \in InProgress("todo_edit") :
        (/\ Completes(r)
         /\ Submit("todo_edit")
         /\ ValidFieldMap(response'.request.POST)
         /\ r.todo.id \in DOMAIN store)
        => EditSets(r, response'.request.POST, SuppliedAsIs)]_vars

\* C7, amended: the same, the title stored being the submitted one with the
\* surrounding whitespace trimmed.
C7_EditStoresTrimmed ==
    [][\A r \in InProgress("todo_edit") :
        (/\ Completes(r)
         /\ Submit("todo_edit")
         /\ ValidFieldMap(response'.request.POST)
         /\ r.todo.id \in DOMAIN store)
        => EditSets(r, response'.request.POST, SuppliedText)]_vars

\* An edit with no is_resolved submitted has succeeded on an existing row.
C7_Witness ==
    /\ response.request.view = "todo_edit"
    /\ RedirectedToList(response)
    /\ "is_resolved" \notin DOMAIN response.request.POST
    /\ response.request.pk \in DOMAIN store
    /\ ~store[response.request.pk].is_resolved
    /\ store[response.request.pk].updated_at > store[response.request.pk].created_at

\* C8: every row has created_at <= updated_at, and every successful edit
\* submit or toggle of a row leaves it a later updated_at than it had.
C8_Timestamps ==
    [][/\ \A id \in DOMAIN store' : store'[id].created_at <= store'[id].updated_at
       /\ \A r \in InProgress("todo_edit") \cup InProgress("todo_toggle_resolved") :
            (/\ Completes(r)
             /\ response'.status = 302
             /\ r.todo.id \in DOMAIN store)
            => /\ r.todo.id \in DOMAIN store'
               /\ store'[r.todo.id].updated_at > store[r.todo.id].updated_at]_vars

C8_Witness ==
    /\ response.request.view = "todo_edit"
    /\ RedirectedToList(response)
    /\ response.request.pk \in DOMAIN store
    /\ store[response.request.pk].updated_at > store[response.request.pk].created_at
    /\ store[response.request.pk].updated_at = MaxClock

\* todos holds every row of the table once, newer rows first, the higher id
\* first among rows created at the same time.
Listed(todos, table) ==
    /\ Len(todos) = Cardinality(DOMAIN table)
    /\ \A id \in DOMAIN table : \E i \in 1..Len(todos) : todos[i] = table[id]
    /\ \A i, j \in 1..Len(todos) :
          i < j => \/ todos[i].created_at > todos[j].created_at
                   \/ /\ todos[i].created_at = todos[j].created_at
                      /\ todos[i].id > todos[j].id

C10_Frame ==
    [][\A r \in InProgress("todo_edit") \cup InProgress("todo_toggle_resolved") :
        Completes(r)
        => LET id == r.todo.id IN
           /\ DOMAIN store' = DOMAIN store
           /\ \A other \in DOMAIN store \ {id} : store'[other] = store[other]
           /\ id \in DOMAIN store
                => /\ store'[id].id = store[id].id
                   /\ store'[id].created_at = store[id].created_at
                   /\ r.pc = "todo_toggle_resolved"
                        => /\ store'[id].title = store[id].title
                           /\ store'[id].description = store[id].description
                           /\ store'[id].due_date = store[id].due_date]_vars

====
